---- MODULE Spec2Model ----
(***************************************************************************)
(* Model of templates/js/product-analysis.js: the per-branch product       *)
(* analysis page (Top Performers table, summary, selection statistics,     *)
(* product dropdown, product detail view).                                 *)
(*                                                                         *)
(* The DOM elements the script reads and writes are the variables.  What   *)
(* the script writes into an element with innerHTML / textContent is kept  *)
(* as a record of the values interpolated into the markup (the markup      *)
(* itself, currency/number formatting and text truncation are not          *)
(* modelled).  JavaScript numbers are integers here; quotients are exact   *)
(* fractions [num, den].                                                   *)
(***************************************************************************)
EXTENDS Integers, Sequences, FiniteSets, TLC

VARIABLES
    productData,      \* let productData (line 7): the Record Store
    branchSelect,     \* #branchSelect.value
    topCount,         \* #topCount.value
    sortBy,           \* #sortBy.value
    tableContainer,   \* #top-performers-table content
    summaryContent,   \* #summary-content content
    selectionInfo,    \* #selection-text, #stat-products, #stat-records, #stat-branches
    analysisProduct,  \* #analysisProduct: options, value, disabled
    branchInfoText,   \* #branchInfoText content
    detailAnalysis,   \* #product-detail-analysis style.display
    productDetail,    \* info text, metric cards and chart title of the detail view
    chart,            \* #product-comparison-chart content
    detailRequest     \* the last call of window.ProductAnalysis.showProductDetails

vars == <<productData, branchSelect, topCount, sortBy, tableContainer,
          summaryContent, selectionInfo, analysisProduct, branchInfoText,
          detailAnalysis, productDetail, chart, detailRequest>>

-----------------------------------------------------------------------------
(* Bounds of the model *)

\* longest Record Store the table pipeline is run on (InitTable)
MaxRecords == 3

\* longest Record Store the page is loaded with (Init)
MaxPageRecords == 2

\* the number of records of a Record Store the summary is checked on
MaxSummaryRecords == 4

\* largest 0-based row index a single row is formatted at (InitRow)
MaxIndex == 11

\* largest summed margin of the product of a single row (InitRow)
MaxMargin == 65

-----------------------------------------------------------------------------
(* JavaScript values *)

\* A JavaScript number that may be NaN (the result of parseInt).
Number(n) == [isNaN |-> FALSE, value |-> n]

NaN == [isNaN |-> TRUE, value |-> 0]

\* (item[field] || 0) for a numeric property: a record that lacks the property
\* reads undefined, which like 0 is falsy.
OrZero(item, field) == IF field \in DOMAIN item THEN item[field] ELSE 0

\* The UTF-16 code units of the strings the model uses (menu names and the
\* values of the #topCount options).
CodeUnits(s) ==
    CASE s = ""            -> <<>>
      [] s = "1"           -> <<49>>
      [] s = "2"           -> <<50>>
      [] s = "3"           -> <<51>>
      [] s = "10"          -> <<49, 48>>
      [] s = "12"          -> <<49, 50>>
      [] s = "all"         -> <<97, 108, 108>>
      [] s = "Ayam"        -> <<65, 121, 97, 109>>
      [] s = "Bakso"       -> <<66, 97, 107, 115, 111>>
      [] s = "Es Teh"      -> <<69, 115, 32, 84, 101, 104>>
      [] s = "constructor" -> <<99, 111, 110, 115, 116, 114, 117, 99, 116, 111, 114>>
      [] s = "kopi"        -> <<107, 111, 112, 105>>
      [] s = "Sate"        -> <<83, 97, 116, 101>>
      [] s = "Soto"        -> <<83, 111, 116, 111>>
      [] s = "Nasi"        -> <<78, 97, 115, 105>>
      [] s = "Mie"         -> <<77, 105, 101>>
      [] s = "Teh"         -> <<84, 101, 104>>
      [] s = "Jus"         -> <<74, 117, 115>>
      [] s = "Roti"        -> <<82, 111, 116, 105>>
      [] s = "Tahu"        -> <<84, 97, 104, 117>>
      [] s = "Tempe"       -> <<84, 101, 109, 112, 101>>
      [] s = "Gado"        -> <<71, 97, 100, 111>>
      [] s = "Rawon"       -> <<82, 97, 119, 111, 110>>
      [] s = "Pecel"       -> <<80, 101, 99, 101, 108>>
      [] s = "Bubur"       -> <<66, 117, 98, 117, 114>>

IsDigit(c) == c >= 48 /\ c <= 57

IsWhiteSpace(c) == c \in {9, 10, 11, 12, 13, 32}

RECURSIVE DecimalValue(_)
\* the number a sequence of decimal digits denotes
DecimalValue(u) ==
    IF u = <<>> THEN 0
    ELSE 10 * DecimalValue(SubSeq(u, 1, Len(u) - 1)) + (u[Len(u)] - 48)

RECURSIVE DigitPrefix(_)
\* the longest prefix of u made of decimal digits
DigitPrefix(u) ==
    IF u = <<>> \/ ~IsDigit(u[1]) THEN <<>>
    ELSE <<u[1]>> \o DigitPrefix(Tail(u))

RECURSIVE TrimStart(_)
TrimStart(u) ==
    IF u # <<>> /\ IsWhiteSpace(u[1]) THEN TrimStart(Tail(u)) ELSE u

\* parseInt(string) with no radix, for strings without a 0x prefix:
\* leading white space and one sign are skipped, then the longest run of
\* decimal digits is read; with no digit the result is NaN.
parseInt(u) ==
    LET t      == TrimStart(u)
        neg    == t # <<>> /\ t[1] = 45
        signed == t # <<>> /\ t[1] \in {43, 45}
        body   == IF signed THEN Tail(t) ELSE t
        digits == DigitPrefix(body)
    IN  IF digits = <<>> THEN NaN
        ELSE IF neg THEN Number(0 - DecimalValue(digits))
        ELSE Number(DecimalValue(digits))

\* Array.prototype.slice(0, end) on a sequence: end is converted with
\* ToIntegerOrInfinity (NaN -> 0), a negative end counts from the back.
Slice0(seq, end) ==
    LET len == Len(seq)
        rel == IF end.isNaN THEN 0 ELSE end.value
        fin == IF rel < 0 THEN (IF len + rel < 0 THEN 0 ELSE len + rel)
               ELSE (IF rel < len THEN rel ELSE len)
    IN  SubSeq(seq, 1, fin)

-----------------------------------------------------------------------------
(* Exact fractions for the quotients the script computes *)

Abs(n) == IF n < 0 THEN 0 - n ELSE n

RECURSIVE GCD(_, _)
GCD(a, b) == IF b = 0 THEN a ELSE GCD(b, a % b)

\* n / d for d > 0, in lowest terms
Frac(n, d) ==
    LET g == GCD(Abs(n), d)
    IN  [num |-> n \div g, den |-> d \div g]

FracLess(x, y) == x.num * y.den < y.num * x.den

\* x > k for an integer k
FracGreater(x, k) == x.num > k * x.den

FracAdd(x, y) == Frac(x.num * y.den + y.num * x.den, x.den * y.den)

-----------------------------------------------------------------------------
(* The plain object productStats = {} used as a map (lines 107-124) *)

\* Property names every plain object inherits from Object.prototype: for these
\* productStats[name] is truthy before anything was stored under the name.
ObjectPrototypeKeys ==
    {"constructor", "hasOwnProperty", "isPrototypeOf", "propertyIsEnumerable",
     "toLocaleString", "toString", "valueOf", "__proto__", "__defineGetter__",
     "__defineSetter__", "__lookupGetter__", "__lookupSetter__"}

RECURSIVE CodeUnitsLess(_, _)
\* string comparison by UTF-16 code units (the default order of Array.sort)
CodeUnitsLess(u, v) ==
    IF v = <<>> THEN FALSE
    ELSE IF u = <<>> THEN TRUE
    ELSE IF u[1] # v[1] THEN u[1] < v[1]
    ELSE CodeUnitsLess(Tail(u), Tail(v))

\* the digits of 2^32 - 2 = 4294967294, the largest array index
MaxArrayIndex == <<52, 50, 57, 52, 57, 54, 55, 50, 57, 52>>

\* A property key is an array index when it is the canonical decimal form of
\* an integer in 0 .. 2^32 - 2.
IsArrayIndex(u) ==
    /\ Len(u) >= 1
    /\ \A i \in 1..Len(u) : IsDigit(u[i])
    /\ (Len(u) = 1 \/ u[1] # 48)
    /\ \/ Len(u) < Len(MaxArrayIndex)
       \/ Len(u) = Len(MaxArrayIndex) /\ ~CodeUnitsLess(MaxArrayIndex, u)

\* numeric order of two array-index keys
IndexLess(u, v) ==
    Len(u) < Len(v) \/ (Len(u) = Len(v) /\ CodeUnitsLess(u, v))

\* Position of the own property `key` in stats (0 when there is none).
OwnIndex(stats, key) ==
    IF \E i \in 1..Len(stats) : stats[i].Menu = key
    THEN CHOOSE i \in 1..Len(stats) : stats[i].Menu = key
    ELSE 0

\* Mutant of AddRecord: a record that lacks Qty, Total or Margin is skipped.
AddRecordSkipsIncomplete(stats, item, selectedBranch) ==
    LET i == OwnIndex(stats, item.Menu)
        fresh == [Menu |-> item.Menu, Total |-> 0, Qty |-> 0, Margin |-> 0,
                  branch |-> selectedBranch]
        add(e) == [e EXCEPT !.Total  = @ + item.Total,
                            !.Qty    = @ + item.Qty,
                            !.Margin = @ + item.Margin]
    IN  IF ~({"Total", "Qty", "Margin"} \subseteq DOMAIN item) THEN stats
        ELSE IF i # 0 THEN [stats EXCEPT ![i] = add(@)]
        ELSE IF item.Menu \in ObjectPrototypeKeys THEN stats
        ELSE Append(stats, add(fresh))

\* One iteration of branchData.forEach (lines 108-121).  stats lists the own
\* properties of productStats in creation order.  For an inherited name the
\* test !productStats[item.Menu] is false and the three += act on the
\* inherited object, so productStats gets no property.
AddRecord(stats, item, selectedBranch) ==
    LET i == OwnIndex(stats, item.Menu)
        fresh == [Menu |-> item.Menu, Total |-> 0, Qty |-> 0, Margin |-> 0,
                  branch |-> selectedBranch]
        add(e) == [e EXCEPT !.Total  = @ + OrZero(item, "Total"),
                            !.Qty    = @ + OrZero(item, "Qty"),
                            !.Margin = @ + OrZero(item, "Margin")]
    IN  IF i # 0 THEN [stats EXCEPT ![i] = add(@)]
        ELSE IF item.Menu \in ObjectPrototypeKeys THEN stats
        ELSE Append(stats, add(fresh))

RECURSIVE ProductStats(_, _)
\* productStats after the forEach over branchData (lines 107-121)
ProductStats(branchData, selectedBranch) ==
    IF branchData = <<>> THEN <<>>
    ELSE AddRecord(ProductStats(SubSeq(branchData, 1, Len(branchData) - 1),
                                selectedBranch),
                   branchData[Len(branchData)], selectedBranch)

RECURSIVE AscendingIndexKeys(_)
\* the entries of S, whose keys are array indices, by ascending index
AscendingIndexKeys(S) ==
    IF S = {} THEN <<>>
    ELSE LET m == CHOOSE x \in S : \A y \in S \ {x} :
                      IndexLess(CodeUnits(x.Menu), CodeUnits(y.Menu))
         IN  <<m>> \o AscendingIndexKeys(S \ {m})

\* Object.values(productStats): own properties in property order, that is
\* array-index keys in ascending numeric order, then the other keys in
\* creation order.
ObjectValues(stats) ==
    LET isIndex(e) == IsArrayIndex(CodeUnits(e.Menu))
        indexed    == {stats[i] : i \in {j \in 1..Len(stats) : isIndex(stats[j])}}
    IN  AscendingIndexKeys(indexed) \o SelectSeq(stats, LAMBDA e : ~isIndex(e))

-----------------------------------------------------------------------------
(* updateTopPerformersTable: filter, aggregate, rank, format *)

\* Mutant of BranchData: the branch is compared ignoring case.
BranchDataIgnoringCase(allData, selectedBranch) ==
    LET upper(b) == IF b = "a" THEN "A" ELSE IF b = "b" THEN "B" ELSE b
    IN  SelectSeq(allData, LAMBDA item : upper(item.Branch) = upper(selectedBranch))

\* allData.filter(item => item.Branch === selectedBranch)  (lines 94, 227, 297)
BranchData(allData, selectedBranch) ==
    SelectSeq(allData, LAMBDA item : item.Branch = selectedBranch)

\* Mutant of MarginPercentage: the division is not guarded; margin / 0 is kept
\* as a fraction with denominator 0.
MarginPercentageUnguarded(margin, total) ==
    IF total > 0 THEN Frac(margin * 100, total)
    ELSE IF total < 0 THEN Frac((0 - margin) * 100, 0 - total)
    ELSE [num |-> margin, den |-> 0]

\* Mutant of MarginPercentage: only a revenue sum of exactly 0 gives 0.
MarginPercentageOfNegative(margin, total) ==
    IF total > 0 THEN Frac(margin * 100, total)
    ELSE IF total < 0 THEN Frac((0 - margin) * 100, 0 - total)
    ELSE Frac(0, 1)

\* product.Total > 0 ? (product.Margin / product.Total * 100) : 0   (line 126)
MarginPercentage(margin, total) ==
    IF total > 0 THEN Frac(margin * 100, total) ELSE Frac(0, 1)

\* product.Qty > 0 ? (product.Total / product.Qty) : 0   (line 127)
AvgPrice(total, qty) ==
    IF qty > 0 THEN Frac(total, qty) ELSE Frac(0, 1)

\* Object.values(productStats).map(...)  (lines 124-128)
Products(branchData, selectedBranch) ==
    LET values == ObjectValues(ProductStats(branchData, selectedBranch))
    IN  [i \in 1..Len(values) |->
            [Menu   |-> values[i].Menu,
             Total  |-> values[i].Total,
             Qty    |-> values[i].Qty,
             Margin |-> values[i].Margin,
             branch |-> values[i].branch,
             Margin_Percentage |-> MarginPercentage(values[i].Margin, values[i].Total),
             Avg_Price |-> AvgPrice(values[i].Total, values[i].Qty)]]

\* Mutant of SortField: 'margin' sorts by the summed margin amount.
SortFieldMarginAmount(sortValue) ==
    IF sortValue = "quantity" THEN "Qty"
    ELSE IF sortValue = "margin" THEN "Margin"
    ELSE "Total"

\* lines 131-133
SortField(sortValue) ==
    IF sortValue = "quantity" THEN "Qty"
    ELSE IF sortValue = "margin" THEN "Margin_Percentage"
    ELSE "Total"

\* product[sortField] as a fraction
FieldValue(product, field) ==
    IF field = "Margin_Percentage" THEN product.Margin_Percentage
    ELSE Frac(product[field], 1)

\* the comparator (a, b) => b[sortField] - a[sortField] is negative
\* (a is to come before b)
ComesBefore(a, b, field) == FracLess(FieldValue(b, field), FieldValue(a, field))

RECURSIVE SortProducts(_, _)
\* Array.prototype.sort with the comparator of line 137; the sort is stable:
\* an element is placed after every earlier element that the comparator does
\* not put behind it.
SortProducts(products, field) ==
    IF products = <<>> THEN <<>>
    ELSE LET n      == Len(products)
             x      == products[n]
             sorted == SortProducts(SubSeq(products, 1, n - 1), field)
             k      == Cardinality({i \in 1..Len(sorted) :
                                       ~ComesBefore(x, sorted[i], field)})
         IN  SubSeq(sorted, 1, k) \o <<x>> \o SubSeq(sorted, k + 1, Len(sorted))

\* Mutant of SliceEnd: the limit is one too large.
SliceEndOneMore(count, length) ==
    IF count = "all" THEN Number(length)
    ELSE Number(parseInt(CodeUnits(count)).value + 1)

\* count === 'all' ? products.length : parseInt(count)   (line 138)
SliceEnd(count, length) ==
    IF count = "all" THEN Number(length) ELSE parseInt(CodeUnits(count))

\* lines 136-138
TopProducts(products, sortValue, count) ==
    Slice0(SortProducts(products, SortField(sortValue)),
           SliceEnd(count, Len(products)))

\* Mutant of RankBadge: the tiers are cut at the 0-based index, one rank late.
RankBadgeOneLate(index) ==
    IF index <= 3 THEN "status-excellent"
    ELSE IF index <= 10 THEN "status-good"
    ELSE "status-fair"

\* lines 169-171; index is 0-based
RankBadge(index) ==
    IF index < 3 THEN "status-excellent"
    ELSE IF index < 10 THEN "status-good"
    ELSE "status-fair"

\* Mutant of MarginBadge: the thresholds are inclusive.
MarginBadgeInclusive(mp) ==
    IF ~FracLess(mp, Frac(30, 1)) THEN "status-excellent"
    ELSE IF ~FracLess(mp, Frac(20, 1)) THEN "status-good"
    ELSE IF ~FracLess(mp, Frac(10, 1)) THEN "status-fair"
    ELSE "status-poor"

\* lines 173-176
MarginBadge(mp) ==
    IF FracGreater(mp, 30) THEN "status-excellent"
    ELSE IF FracGreater(mp, 20) THEN "status-good"
    ELSE IF FracGreater(mp, 10) THEN "status-fair"
    ELSE "status-poor"

\* Mutant of Status: the 0-based index is compared as if it were the rank.
StatusIndexAsRank(index, mp) ==
    IF index <= 3 /\ FracGreater(mp, 20)
        THEN [badge |-> "status-excellent", text |-> "Star Product"]
    ELSE IF index <= 10 /\ FracGreater(mp, 15)
        THEN [badge |-> "status-good", text |-> "Good Performer"]
    ELSE IF FracGreater(mp, 10)
        THEN [badge |-> "status-fair", text |-> "Average"]
    ELSE [badge |-> "status-poor", text |-> "Needs Review"]

\* lines 178-189; index is 0-based
Status(index, mp) ==
    IF index < 3 /\ FracGreater(mp, 20)
        THEN [badge |-> "status-excellent", text |-> "Star Product"]
    ELSE IF index < 10 /\ FracGreater(mp, 15)
        THEN [badge |-> "status-good", text |-> "Good Performer"]
    ELSE IF FracGreater(mp, 10)
        THEN [badge |-> "status-fair", text |-> "Average"]
    ELSE [badge |-> "status-poor", text |-> "Needs Review"]

\* one <tr> (lines 166-202): the values interpolated into the row
TableRow(product, index) ==
    [rank        |-> index + 1,
     rankBadge   |-> RankBadge(index),
     Menu        |-> product.Menu,
     Total       |-> product.Total,
     Qty         |-> product.Qty,
     Margin_Percentage |-> product.Margin_Percentage,
     marginBadge |-> MarginBadge(product.Margin_Percentage),
     Avg_Price   |-> product.Avg_Price,
     statusBadge |-> Status(index, product.Margin_Percentage).badge,
     statusText  |-> Status(index, product.Margin_Percentage).text]

\* topProducts.forEach((product, index) => ...)  (lines 165-202)
TableRows(topProducts) ==
    [i \in 1..Len(topProducts) |-> TableRow(topProducts[i], i - 1)]

RECURSIVE SumTotal(_)
\* topProducts.reduce((sum, p) => sum + p.Total, 0)   (line 252)
SumTotal(ps) ==
    IF ps = <<>> THEN 0 ELSE SumTotal(SubSeq(ps, 1, Len(ps) - 1)) + ps[Len(ps)].Total

RECURSIVE SumMarginPercentage(_)
\* topProducts.reduce((sum, p) => sum + p.Margin_Percentage, 0)   (line 253)
SumMarginPercentage(ps) ==
    IF ps = <<>> THEN Frac(0, 1)
    ELSE FracAdd(SumMarginPercentage(SubSeq(ps, 1, Len(ps) - 1)),
                 ps[Len(ps)].Margin_Percentage)

\* updateTopPerformersSummary (lines 236-279): the new #summary-content
Summary(topProducts, selectedBranch, sortValue, totalProducts) ==
    IF selectedBranch = "" THEN [kind |-> "selectBranch"]
    ELSE IF Len(topProducts) = 0 THEN [kind |-> "noProducts"]
    ELSE LET sum == SumMarginPercentage(topProducts)
         IN  [kind         |-> "summary",
              sortText     |-> IF sortValue = "revenue" THEN "revenue"
                               ELSE IF sortValue = "quantity" THEN "quantity"
                               ELSE "margin",
              branch       |-> selectedBranch,
              top3         |-> [i \in 1..(IF Len(topProducts) < 3 THEN Len(topProducts) ELSE 3)
                                   |-> topProducts[i].Menu],
              totalRevenue |-> SumTotal(topProducts),
              avgMargin    |-> Frac(sum.num, sum.den * Len(topProducts)),
              shown        |-> Len(topProducts),
              total        |-> IF totalProducts # 0 THEN totalProducts
                               ELSE Len(topProducts)]
-----------------------------------------------------------------------------
(* updateSelectionInfo, updateProductDropdown *)

\* new Set(branchData.map(item => item.Menu))   (lines 228, 298)
MenuSet(branchData) == {branchData[i].Menu : i \in 1..Len(branchData)}

\* updateSelectionInfo (lines 208-234): the new selection text and statistics
SelectionInfo(allData, selectedBranch, old) ==
    IF Len(allData) = 0 THEN old
    ELSE IF selectedBranch = "" THEN [kind |-> "unique"]
    ELSE LET branchData == BranchData(allData, selectedBranch)
         IN  [kind     |-> "branch",
              branch   |-> selectedBranch,
              products |-> Cardinality(MenuSet(branchData)),
              records  |-> Len(branchData)]

RECURSIVE SortedNames(_)
\* [...set].sort()   (line 298)
SortedNames(S) ==
    IF S = {} THEN <<>>
    ELSE LET m == CHOOSE x \in S : \A y \in S \ {x} :
                      CodeUnitsLess(CodeUnits(x), CodeUnits(y))
         IN  <<m>> \o SortedNames(S \ {m})

\* Mutant of ProductDropdown: the option of the first product is selected
\* instead of the placeholder.
ProductDropdownFirstProduct(allData, selectedBranch) ==
    IF selectedBranch = ""
    THEN [options |-> <<"">>, value |-> "", disabled |-> TRUE]
    ELSE LET names == SortedNames(MenuSet(BranchData(allData, selectedBranch)))
         IN  [options  |-> <<"">> \o names,
              value    |-> IF names = <<>> THEN "" ELSE names[1],
              disabled |-> FALSE]

\* Mutant of ProductDropdown: the names are taken from the records of every
\* branch.
ProductDropdownAllBranches(allData, selectedBranch) ==
    IF selectedBranch = ""
    THEN [options |-> <<"">>, value |-> "", disabled |-> TRUE]
    ELSE [options  |-> <<"">> \o SortedNames(MenuSet(allData)),
          value    |-> "",
          disabled |-> FALSE]

\* updateProductDropdown (lines 281-320): the new #analysisProduct.  Its value
\* is that of the first option, which replacing innerHTML leaves selected.
ProductDropdown(allData, selectedBranch) ==
    IF selectedBranch = ""
    THEN [options |-> <<"">>, value |-> "", disabled |-> TRUE]
    ELSE [options  |-> <<"">> \o SortedNames(MenuSet(BranchData(allData, selectedBranch))),
          value    |-> "",
          disabled |-> FALSE]

\* updateProductDropdown: the new #branchInfoText (lines 290-292, 312-317)
BranchInfo(allData, selectedBranch) ==
    IF selectedBranch = "" THEN [kind |-> "selectBranch"]
    ELSE [kind   |-> "branch",
          branch |-> selectedBranch,
          count  |-> Cardinality(MenuSet(BranchData(allData, selectedBranch)))]

-----------------------------------------------------------------------------
(* showProductDetails, createEnhancedProductChart *)

\* allData.filter(item => item.Menu === productName && item.Branch === selectedBranch)
ProductRecords(allData, productName, selectedBranch) ==
    SelectSeq(allData, LAMBDA item :
                  item.Menu = productName /\ item.Branch = selectedBranch)

RECURSIVE SumField(_, _)
\* records.reduce((sum, item) => sum + (item[field] || 0), 0)
SumField(records, field) ==
    IF records = <<>> THEN 0
    ELSE SumField(SubSeq(records, 1, Len(records) - 1), field)
         + OrZero(records[Len(records)], field)

\* n / d as JavaScript computes it, for the display of (n / d) * 100
Percent(n, d) ==
    IF d = 0 THEN (IF n = 0 THEN [kind |-> "NaN"]
                   ELSE IF n > 0 THEN [kind |-> "Infinity"]
                   ELSE [kind |-> "-Infinity"])
    ELSE IF d > 0 THEN [kind |-> "finite", value |-> Frac(n * 100, d)]
    ELSE [kind |-> "finite", value |-> Frac((0 - n) * 100, 0 - d)]

\* Mutant of Components: a component of value 0 is kept.
ComponentsNonNegative(netRevenue, totalMargin, totalCogs) ==
    SelectSeq(<<[label |-> "Net Revenue",     value |-> netRevenue],
                [label |-> "Margin (Profit)", value |-> totalMargin],
                [label |-> "COGS (Cost)",     value |-> totalCogs]>>,
              LAMBDA c : c.value >= 0)

\* lines 383-387: the components with a value > 0, in order
Components(netRevenue, totalMargin, totalCogs) ==
    SelectSeq(<<[label |-> "Net Revenue",     value |-> netRevenue],
                [label |-> "Margin (Profit)", value |-> totalMargin],
                [label |-> "COGS (Cost)",     value |-> totalCogs]>>,
              LAMBDA c : c.value > 0)

\* Mutant of ProductChart: the exception of Plotly.newPlot is not caught, the
\* chart area gets no fallback.
ProductChartUncaught(records, productName, branchName, plotThrows) ==
    IF Len(records) = 0 THEN [kind |-> "noData"]
    ELSE LET totalRevenue == SumField(records, "Total")
             totalCogs    == SumField(records, "COGS_Total")
             components   == Components(totalRevenue - totalCogs,
                                        SumField(records, "Margin"), totalCogs)
         IN  IF Len(components) = 0 THEN [kind |-> "invalid"]
             ELSE IF plotThrows THEN [kind |-> "blank"]
             ELSE [kind    |-> "pie",
                   labels  |-> [i \in 1..Len(components) |-> components[i].label],
                   values  |-> [i \in 1..Len(components) |-> components[i].value],
                   product |-> productName,
                   branch  |-> branchName,
                   totalRevenue |-> totalRevenue,
                   records |-> Len(records)]

\* Mutant of ProductChart: the test of lines 389-398 for an empty list of
\* components is left out.
ProductChartUnvalidated(records, productName, branchName, plotThrows) ==
    IF Len(records) = 0 THEN [kind |-> "noData"]
    ELSE LET totalRevenue == SumField(records, "Total")
             totalCogs    == SumField(records, "COGS_Total")
             components   == Components(totalRevenue - totalCogs,
                                        SumField(records, "Margin"), totalCogs)
         IN  [kind    |-> IF plotThrows THEN "fallback" ELSE "pie",
              labels  |-> [i \in 1..Len(components) |-> components[i].label],
              values  |-> [i \in 1..Len(components) |-> components[i].value],
              product |-> productName,
              branch  |-> branchName,
              totalRevenue |-> totalRevenue,
              records |-> Len(records)]

\* createEnhancedProductChart (lines 364-503): the new chart area.
\* plotThrows: Plotly.newPlot raises an exception.
ProductChart(records, productName, branchName, plotThrows) ==
    IF Len(records) = 0 THEN [kind |-> "noData"]
    ELSE LET totalRevenue == SumField(records, "Total")
             totalMargin  == SumField(records, "Margin")
             totalCogs    == SumField(records, "COGS_Total")
             netRevenue   == totalRevenue - totalCogs
             components   == Components(netRevenue, totalMargin, totalCogs)
         IN  IF Len(components) = 0 THEN [kind |-> "invalid"]
             ELSE IF ~plotThrows
             THEN [kind    |-> "pie",
                   labels  |-> [i \in 1..Len(components) |-> components[i].label],
                   values  |-> [i \in 1..Len(components) |-> components[i].value],
                   product |-> productName,
                   branch  |-> branchName,
                   totalRevenue |-> totalRevenue,
                   records |-> Len(records)]
             ELSE [kind       |-> "fallback",
                   netRevenue |-> netRevenue,
                   netPercent |-> Percent(netRevenue, totalRevenue),
                   margin     |-> totalMargin,
                   marginPercent |-> Percent(totalMargin, totalRevenue),
                   cogs       |-> totalCogs,
                   cogsPercent |-> Percent(totalCogs, totalRevenue),
                   product    |-> productName,
                   branch     |-> branchName,
                   totalRevenue |-> totalRevenue,
                   records    |-> Len(records)]

\* Mutant of DetailsShown: the return of lines 332-334 for an empty filter
\* result is left out.
DetailsShownWithoutRecords(allData, productName, selectedBranch) ==
    /\ Len(allData) # 0
    /\ selectedBranch # ""

\* showProductDetails reaches the code after its two early returns
\* (lines 323-334)
DetailsShown(allData, productName, selectedBranch) ==
    /\ Len(allData) # 0
    /\ selectedBranch # ""
    /\ Len(ProductRecords(allData, productName, selectedBranch)) # 0

\* totalRevenue > 0 ? (totalMargin / totalRevenue * 100) : 0   (line 340)
DetailAvgMargin(totalMargin, totalRevenue) ==
    IF totalRevenue > 0 THEN Frac(totalMargin * 100, totalRevenue) ELSE Frac(0, 1)

\* showProductDetails (lines 336-358): info text, metric cards, chart title
ProductDetail(allData, productName, selectedBranch) ==
    LET records      == ProductRecords(allData, productName, selectedBranch)
        totalRevenue == SumField(records, "Total")
        totalQty     == SumField(records, "Qty")
        totalMargin  == SumField(records, "Margin")
    IN  [kind         |-> "detail",
         product      |-> productName,
         branch       |-> selectedBranch,
         records      |-> Len(records),
         totalRevenue |-> totalRevenue,
         totalQty     |-> totalQty,
         avgMargin    |-> DetailAvgMargin(totalMargin, totalRevenue)]
-----------------------------------------------------------------------------
(* The table area and the summary area after updateTopPerformersTable *)

\* Mutant of TopPerformersTable: the rows are appended to those on display.
TopPerformersTableAppending(allData, selectedBranch, count, sortValue, old) ==
    IF Len(allData) = 0 THEN old
    ELSE IF selectedBranch = "" THEN [kind |-> "selectBranch"]
    ELSE LET branchData == BranchData(allData, selectedBranch)
             products   == Products(branchData, selectedBranch)
             top        == TopProducts(products, sortValue, count)
             before     == IF old.kind = "table" THEN old.rows ELSE <<>>
         IN  IF Len(branchData) = 0
             THEN [kind |-> "noData", branch |-> selectedBranch]
             ELSE [kind   |-> "table",
                   branch |-> selectedBranch,
                   rows   |-> before \o TableRows(top),
                   shown  |-> Len(top),
                   total  |-> Len(products)]

\* updateTopPerformersTable (lines 70-206): the new #top-performers-table
TopPerformersTable(allData, selectedBranch, count, sortValue, old) ==
    IF Len(allData) = 0 THEN old
    ELSE IF selectedBranch = "" THEN [kind |-> "selectBranch"]
    ELSE LET branchData == BranchData(allData, selectedBranch)
             products   == Products(branchData, selectedBranch)
             top        == TopProducts(products, sortValue, count)
         IN  IF Len(branchData) = 0
             THEN [kind |-> "noData", branch |-> selectedBranch]
             ELSE [kind   |-> "table",
                   branch |-> selectedBranch,
                   rows   |-> TableRows(top),
                   shown  |-> Len(top),
                   total  |-> Len(products)]

\* Mutant of TopPerformersSummary: the summary is computed from all aggregates
\* of the branch, not from the rows shown.
TopPerformersSummaryOfAll(allData, selectedBranch, count, sortValue, old) ==
    IF Len(allData) = 0 \/ selectedBranch = "" THEN old
    ELSE LET branchData == BranchData(allData, selectedBranch)
             products   == Products(branchData, selectedBranch)
         IN  IF Len(branchData) = 0 THEN old
             ELSE Summary(SortProducts(products, SortField(sortValue)),
                          selectedBranch, sortValue, Len(products))

\* updateTopPerformersTable (lines 70-206): the new #summary-content, written
\* only by the call of updateTopPerformersSummary in line 205
TopPerformersSummary(allData, selectedBranch, count, sortValue, old) ==
    IF Len(allData) = 0 \/ selectedBranch = "" THEN old
    ELSE LET branchData == BranchData(allData, selectedBranch)
             products   == Products(branchData, selectedBranch)
             top        == TopProducts(products, sortValue, count)
         IN  IF Len(branchData) = 0 THEN old
             ELSE Summary(top, selectedBranch, sortValue, Len(products))

-----------------------------------------------------------------------------
(* Inputs *)

\* The sales records the stores are made of.  COGS_Total stands for the
\* property 'COGS Total'.  The last record lacks Qty, Margin and 'COGS Total'.
RecordPool ==
    {[Branch |-> "A", Menu |-> "Ayam",  Qty |-> 2, Total |-> 100, Margin |-> 20, COGS_Total |-> 60],
     [Branch |-> "B", Menu |-> "Ayam",  Qty |-> 1, Total |-> 40,  Margin |-> 4,  COGS_Total |-> 30],
     [Branch |-> "a", Menu |-> "Ayam",  Qty |-> 1, Total |-> 70,  Margin |-> 7,  COGS_Total |-> 50],
     [Branch |-> "A", Menu |-> "10",    Qty |-> 1, Total |-> 100, Margin |-> 35, COGS_Total |-> 50],
     [Branch |-> "A", Menu |-> "2",     Qty |-> 4, Total |-> 100, Margin |-> 12, COGS_Total |-> 80],
     [Branch |-> "A", Menu |-> "Bakso", Qty |-> 0, Total |-> 0,   Margin |-> 10, COGS_Total |-> 0],
     [Branch |-> "A", Menu |-> "kopi",  Qty |-> 1, Total |-> -50, Margin |-> -10, COGS_Total |-> 20],
     [Branch |-> "A", Menu |-> "constructor", Qty |-> 1, Total |-> 80, Margin |-> 40, COGS_Total |-> 30],
     [Branch |-> "A", Menu |-> "Es Teh", Total |-> 60]}

\* every Record Store of at most MaxRecords records
Stores == UNION {[1..n -> RecordPool] : n \in 0..MaxRecords}

\* The sales records the stores the page is loaded with are made of.
PagePool ==
    {[Branch |-> "A", Menu |-> "Ayam",  Qty |-> 2, Total |-> 100, Margin |-> 20, COGS_Total |-> 60],
     [Branch |-> "A", Menu |-> "kopi",  Qty |-> 1, Total |-> -50, Margin |-> -10, COGS_Total |-> 20],
     [Branch |-> "B", Menu |-> "kopi",  Qty |-> 5, Total |-> 1000, Margin |-> -200, COGS_Total |-> 1200],
     [Branch |-> "B", Menu |-> "Bakso", Qty |-> 0, Total |-> 0,   Margin |-> 0, COGS_Total |-> 0],
     [Branch |-> "A", Menu |-> "Es Teh", Total |-> 60]}

\* every Record Store of at most MaxPageRecords records
PageStores == UNION {[1..n -> PagePool] : n \in 0..MaxPageRecords}

\* the values of the options of #branchSelect, #sortBy and #topCount
BranchOptions == {"", "A", "B"}

SortOptions == {"revenue", "quantity", "margin", "profit"}

CountOptions == {"2", "10", "all"}

-----------------------------------------------------------------------------
(* The page *)

\* initializeProductAnalysis (lines 15-68) on the page as served: no branch
\* selected, the product dropdown holding its placeholder, the detail view
\* hidden; the initial load calls updateSelectionInfo (line 64).
Init ==
    /\ productData \in PageStores
    /\ branchSelect = ""
    /\ topCount = "10"
    /\ sortBy = "revenue"
    /\ tableContainer = [kind |-> "initial"]
    /\ summaryContent = [kind |-> "initial"]
    /\ selectionInfo = SelectionInfo(productData, "", [kind |-> "initial"])
    /\ analysisProduct = [options |-> <<"">>, value |-> "", disabled |-> TRUE]
    /\ branchInfoText = [kind |-> "initial"]
    /\ detailAnalysis = "none"
    /\ productDetail = [kind |-> "initial"]
    /\ chart = [kind |-> "initial"]
    /\ detailRequest = [kind |-> "none"]

\* the change listener of #branchSelect (lines 33-37)
BranchChange ==
    \E b \in BranchOptions \ {branchSelect} :
        /\ branchSelect' = b
        /\ tableContainer' = TopPerformersTable(productData, b, topCount, sortBy,
                                                tableContainer)
        /\ summaryContent' = TopPerformersSummary(productData, b, topCount, sortBy,
                                                  summaryContent)
        /\ selectionInfo' = SelectionInfo(productData, b, selectionInfo)
        /\ analysisProduct' = ProductDropdown(productData, b)
        /\ branchInfoText' = BranchInfo(productData, b)
        /\ UNCHANGED <<detailRequest, productData, topCount, sortBy, detailAnalysis,
                       productDetail, chart>>

\* the change listener of #topCount (lines 39-43)
CountChange ==
    \E c \in CountOptions \ {topCount} :
        /\ topCount' = c
        /\ IF branchSelect # ""
           THEN /\ tableContainer' = TopPerformersTable(productData, branchSelect, c,
                                                        sortBy, tableContainer)
                /\ summaryContent' = TopPerformersSummary(productData, branchSelect, c,
                                                          sortBy, summaryContent)
           ELSE UNCHANGED <<tableContainer, summaryContent>>
        /\ UNCHANGED <<detailRequest, productData, branchSelect, sortBy, selectionInfo,
                       analysisProduct, branchInfoText, detailAnalysis,
                       productDetail, chart>>

\* Mutant of SortChange: the table is updated without the test of line 46.
SortChangeUnguarded ==
    \E k \in SortOptions \ {sortBy} :
        /\ sortBy' = k
        /\ tableContainer' = TopPerformersTable(productData, branchSelect,
                                                topCount, k, tableContainer)
        /\ summaryContent' = TopPerformersSummary(productData, branchSelect,
                                                  topCount, k, summaryContent)
        /\ UNCHANGED <<detailRequest, productData, branchSelect, topCount, selectionInfo,
                       analysisProduct, branchInfoText, detailAnalysis,
                       productDetail, chart>>

\* the change listener of #sortBy (lines 45-49)
SortChange ==
    \E k \in SortOptions \ {sortBy} :
        /\ sortBy' = k
        /\ IF branchSelect # ""
           THEN /\ tableContainer' = TopPerformersTable(productData, branchSelect,
                                                        topCount, k, tableContainer)
                /\ summaryContent' = TopPerformersSummary(productData, branchSelect,
                                                          topCount, k, summaryContent)
           ELSE UNCHANGED <<tableContainer, summaryContent>>
        /\ UNCHANGED <<detailRequest, productData, branchSelect, topCount, selectionInfo,
                       analysisProduct, branchInfoText, detailAnalysis,
                       productDetail, chart>>

\* the change listener of #analysisProduct (lines 52-61); the user picks
\* another option of the enabled dropdown
ProductChange ==
    /\ ~analysisProduct.disabled
    /\ \E i \in 1..Len(analysisProduct.options), plotThrows \in BOOLEAN :
        LET selectedProduct == analysisProduct.options[i]
            selectedBranch  == branchSelect
        IN  /\ selectedProduct # analysisProduct.value
            /\ analysisProduct' = [analysisProduct EXCEPT !.value = selectedProduct]
            /\ IF selectedProduct # "" /\ selectedBranch # ""
               THEN /\ detailAnalysis' = "block"
                    /\ IF DetailsShown(productData, selectedProduct, selectedBranch)
                       THEN /\ productDetail' = ProductDetail(productData, selectedProduct,
                                                              selectedBranch)
                            /\ chart' = ProductChart(
                                   ProductRecords(productData, selectedProduct,
                                                  selectedBranch),
                                   selectedProduct, selectedBranch, plotThrows)
                       ELSE UNCHANGED <<productDetail, chart>>
               ELSE /\ detailAnalysis' = "none"
                    /\ UNCHANGED <<productDetail, chart>>
            /\ UNCHANGED <<detailRequest, productData, branchSelect, topCount, sortBy,
                           tableContainer, summaryContent, selectionInfo,
                           branchInfoText>>

Next == BranchChange \/ CountChange \/ SortChange \/ ProductChange

Spec == Init /\ [][Next]_vars

-----------------------------------------------------------------------------
(* The table pipeline alone: one call of updateTopPerformersTable for every  *)
(* Record Store, branch, sort key and count.                                 *)

\* The page at the moment updateTopPerformersTable is first called: served
\* with the selections and loaded, so that updateSelectionInfo (line 64) has
\* written the selection statistics.
InitTable ==
    /\ productData \in Stores
    /\ branchSelect \in BranchOptions
    /\ topCount \in CountOptions
    /\ sortBy \in SortOptions
    /\ tableContainer = [kind |-> "initial"]
    /\ summaryContent = [kind |-> "initial"]
    /\ selectionInfo = SelectionInfo(productData, branchSelect, [kind |-> "initial"])
    /\ analysisProduct = [options |-> <<"">>, value |-> "", disabled |-> TRUE]
    /\ branchInfoText = [kind |-> "initial"]
    /\ detailAnalysis = "none"
    /\ productDetail = [kind |-> "initial"]
    /\ chart = [kind |-> "initial"]
    /\ detailRequest = [kind |-> "none"]

\* updateTopPerformersTable(productData) (lines 70-206)
TableUpdate ==
    /\ tableContainer.kind = "initial"
    /\ tableContainer' = TopPerformersTable(productData, branchSelect, topCount,
                                            sortBy, tableContainer)
    /\ summaryContent' = TopPerformersSummary(productData, branchSelect, topCount,
                                              sortBy, summaryContent)
    /\ UNCHANGED <<detailRequest, productData, branchSelect, topCount, sortBy, selectionInfo,
                   analysisProduct, branchInfoText, detailAnalysis,
                   productDetail, chart>>

SpecTable == InitTable /\ [][TableUpdate]_vars

-----------------------------------------------------------------------------
(* One table row alone: the body of topProducts.forEach for the last        *)
(* product of a ranking of every length up to MaxIndex + 1.                  *)

\* summed revenue of the product of the row
RowTotals == {-100, 0, 100, 200}

\* summed margin of the product of the row
RowMargins == (0 - 5)..MaxMargin

\* names of the products ranked before the product of the row
RowFillers ==
    <<"Sate", "Soto", "Nasi", "Mie", "Teh", "Jus", "Roti", "Tahu", "Tempe",
      "Gado", "Rawon", "Pecel", "Bubur">>

\* A store of branch A with i + 1 products: the product of the row, of revenue
\* t and margin m, and i products of a larger revenue, which the ranking by
\* revenue places before it.
RowStore(t, m, i) ==
    <<[Branch |-> "A", Menu |-> "Ayam", Qty |-> 1,
       Total |-> t, Margin |-> m, COGS_Total |-> 0]>>
    \o [k \in 1..i |-> [Branch |-> "A", Menu |-> RowFillers[k], Qty |-> 1,
                        Total |-> 300, Margin |-> 30, COGS_Total |-> 0]]

\* The page is loaded and the forEach of line 166 is about to format the last
\* row of the ranking, at tableContainer.index.
InitRow ==
    /\ \E t \in RowTotals, m \in RowMargins, i \in 0..MaxIndex :
          /\ productData = RowStore(t, m, i)
          /\ tableContainer = [kind |-> "forEach", index |-> i]
    /\ branchSelect = "A"
    /\ topCount = "all"
    /\ sortBy = "revenue"
    /\ summaryContent = [kind |-> "initial"]
    /\ selectionInfo = SelectionInfo(productData, branchSelect, [kind |-> "initial"])
    /\ analysisProduct = [options |-> <<"">>, value |-> "", disabled |-> TRUE]
    /\ branchInfoText = [kind |-> "initial"]
    /\ detailAnalysis = "none"
    /\ productDetail = [kind |-> "initial"]
    /\ chart = [kind |-> "initial"]
    /\ detailRequest = [kind |-> "none"]

\* one iteration of topProducts.forEach (lines 166-202)
FormatRow ==
    /\ tableContainer.kind = "forEach"
    /\ LET topProducts ==
               TopProducts(Products(BranchData(productData, branchSelect),
                                    branchSelect),
                           sortBy, topCount)
           index == tableContainer.index
       IN  /\ index < Len(topProducts)
           /\ tableContainer' =
                  [kind  |-> "row",
                   index |-> index,
                   row   |-> TableRow(topProducts[index + 1], index)]
    /\ UNCHANGED <<detailRequest, productData, branchSelect, topCount, sortBy, summaryContent,
                   selectionInfo, analysisProduct, branchInfoText, detailAnalysis,
                   productDetail, chart>>

SpecRow == InitRow /\ [][FormatRow]_vars

-----------------------------------------------------------------------------
(* The product-detail request alone: the change listener of #analysisProduct *)
(* and direct calls of showProductDetails and createEnhancedProductChart,    *)
(* for every Record Store, branch and product name.                          *)

\* The sales records of the stores the listener is run on: those of the page
\* and a product sold at a revenue of 0 with a margin.
DetailPool ==
    PagePool \cup
    {[Branch |-> "A", Menu |-> "Bakso", Qty |-> 0, Total |-> 0, Margin |-> 10, COGS_Total |-> 0]}

\* every Record Store of at most MaxPageRecords records of DetailPool
DetailStores == UNION {[1..n -> DetailPool] : n \in 0..MaxPageRecords}

\* The page after the branch listener has run for the selected branch (as
\* served when no branch is selected): the table, the selection statistics and
\* the product dropdown are those the listener builds for the store.
InitDetail ==
    /\ productData \in DetailStores
    /\ branchSelect \in BranchOptions
    /\ topCount = "10"
    /\ sortBy = "revenue"
    /\ tableContainer =
          IF branchSelect = "" THEN [kind |-> "initial"]
          ELSE TopPerformersTable(productData, branchSelect, topCount, sortBy,
                                  [kind |-> "initial"])
    /\ summaryContent =
          IF branchSelect = "" THEN [kind |-> "initial"]
          ELSE TopPerformersSummary(productData, branchSelect, topCount, sortBy,
                                    [kind |-> "initial"])
    /\ selectionInfo =
          SelectionInfo(productData, branchSelect,
                        SelectionInfo(productData, "", [kind |-> "initial"]))
    /\ analysisProduct = ProductDropdown(productData, branchSelect)
    /\ branchInfoText =
          IF branchSelect = "" THEN [kind |-> "initial"]
          ELSE BranchInfo(productData, branchSelect)
    /\ detailAnalysis = "none"
    /\ productDetail = [kind |-> "initial"]
    /\ chart = [kind |-> "initial"]
    /\ detailRequest = [kind |-> "none"]

\* the product names a caller of showProductDetails may pass
ProductNames == {"Ayam", "Bakso", "kopi"}

\* A call of showProductDetails(productName, selectedBranch, productData)
\* through window.ProductAnalysis (lines 518-526) with any product name and
\* branch: the function (lines 322-362) alone, which does not touch the
\* visibility of the detail view.  detailRequest keeps the arguments of the
\* call.
ShowProductDetailsCall ==
    \E productName \in ProductNames, selectedBranch \in BranchOptions,
       plotThrows \in BOOLEAN :
        /\ detailRequest' = [kind    |-> "call",
                             product |-> productName,
                             branch  |-> selectedBranch]
        /\ IF DetailsShown(productData, productName, selectedBranch)
           THEN /\ productDetail' = ProductDetail(productData, productName,
                                                  selectedBranch)
                /\ chart' = ProductChart(
                       ProductRecords(productData, productName, selectedBranch),
                       productName, selectedBranch, plotThrows)
           ELSE UNCHANGED <<productDetail, chart>>
        /\ UNCHANGED <<productData, branchSelect, topCount, sortBy,
                       tableContainer, summaryContent, selectionInfo,
                       analysisProduct, branchInfoText, detailAnalysis>>

\* A call of createEnhancedProductChart(records, productName, branchName)
\* through window.ProductAnalysis (line 524) with no record or with the whole
\* store, under the title 'Ayam' / 'A': the function (lines 364-503) writes
\* the chart area and nothing else.
CreateEnhancedProductChartCall ==
    \E records \in {<<>>, productData}, productName \in {"Ayam"},
       branchName \in {"A"}, plotThrows \in BOOLEAN :
        /\ chart' = ProductChart(records, productName, branchName, plotThrows)
        /\ UNCHANGED <<detailRequest, productData, branchSelect, topCount, sortBy,
                       tableContainer, summaryContent, selectionInfo,
                       analysisProduct, branchInfoText, detailAnalysis,
                       productDetail>>

NextDetail ==
    ProductChange \/ ShowProductDetailsCall \/ CreateEnhancedProductChartCall

SpecDetail == InitDetail /\ [][NextDetail]_vars

-----------------------------------------------------------------------------
(* The product dropdown alone: one call of updateProductDropdown for every   *)
(* Record Store and branch.                                                  *)

\* The page at the moment updateProductDropdown is first called: served with
\* the branch and loaded, so that updateSelectionInfo (line 64) has written
\* the selection statistics.
InitDropdown ==
    /\ productData \in Stores
    /\ branchSelect \in BranchOptions
    /\ topCount = "10"
    /\ sortBy = "revenue"
    /\ tableContainer = [kind |-> "initial"]
    /\ summaryContent = [kind |-> "initial"]
    /\ selectionInfo = SelectionInfo(productData, branchSelect, [kind |-> "initial"])
    /\ analysisProduct = [options |-> <<"">>, value |-> "", disabled |-> TRUE]
    /\ branchInfoText = [kind |-> "initial"]
    /\ detailAnalysis = "none"
    /\ productDetail = [kind |-> "initial"]
    /\ chart = [kind |-> "initial"]
    /\ detailRequest = [kind |-> "none"]

\* updateProductDropdown(productData) (lines 281-320)
DropdownUpdate ==
    /\ branchInfoText.kind = "initial"
    /\ analysisProduct' = ProductDropdown(productData, branchSelect)
    /\ branchInfoText' = BranchInfo(productData, branchSelect)
    /\ UNCHANGED <<detailRequest, productData, branchSelect, topCount, sortBy, tableContainer,
                   summaryContent, selectionInfo, detailAnalysis, productDetail,
                   chart>>

SpecDropdown == InitDropdown /\ [][DropdownUpdate]_vars

-----------------------------------------------------------------------------
(* The branch listener alone, for every Record Store of RecordPool: table,   *)
(* selection statistics and product dropdown of one branch side by side.     *)

\* the page as served, loaded with a store of RecordPool
InitBranch ==
    /\ productData \in Stores
    /\ branchSelect = ""
    /\ topCount = "10"
    /\ sortBy = "revenue"
    /\ tableContainer = [kind |-> "initial"]
    /\ summaryContent = [kind |-> "initial"]
    /\ selectionInfo = SelectionInfo(productData, "", [kind |-> "initial"])
    /\ analysisProduct = [options |-> <<"">>, value |-> "", disabled |-> TRUE]
    /\ branchInfoText = [kind |-> "initial"]
    /\ detailAnalysis = "none"
    /\ productDetail = [kind |-> "initial"]
    /\ chart = [kind |-> "initial"]
    /\ detailRequest = [kind |-> "none"]

SpecBranch == InitBranch /\ [][BranchChange]_vars

-----------------------------------------------------------------------------
(* The table update on branches of up to MaxSummaryRecords products, for the *)
(* summary of a truncated ranking.                                           *)

\* records of five products of branch A
SummaryPool ==
    {[Branch |-> "A", Menu |-> "Ayam",  Qty |-> 2, Total |-> 100, Margin |-> 20, COGS_Total |-> 60],
     [Branch |-> "A", Menu |-> "10",    Qty |-> 1, Total |-> 100, Margin |-> 35, COGS_Total |-> 50],
     [Branch |-> "A", Menu |-> "Bakso", Qty |-> 0, Total |-> 0,   Margin |-> 10, COGS_Total |-> 0],
     [Branch |-> "A", Menu |-> "kopi",  Qty |-> 1, Total |-> -50, Margin |-> -10, COGS_Total |-> 20],
     [Branch |-> "A", Menu |-> "Es Teh", Total |-> 60]}

\* every Record Store of at most MaxSummaryRecords records of SummaryPool
SummaryStores == UNION {[1..n -> SummaryPool] : n \in 0..MaxSummaryRecords}

\* The page at the moment updateTopPerformersTable is first called, served
\* with branch A and loaded (updateSelectionInfo of line 64 has run).
InitSummary ==
    /\ productData \in SummaryStores
    /\ branchSelect = "A"
    /\ topCount \in CountOptions
    /\ sortBy \in SortOptions
    /\ tableContainer = [kind |-> "initial"]
    /\ summaryContent = [kind |-> "initial"]
    /\ selectionInfo = SelectionInfo(productData, branchSelect, [kind |-> "initial"])
    /\ analysisProduct = [options |-> <<"">>, value |-> "", disabled |-> TRUE]
    /\ branchInfoText = [kind |-> "initial"]
    /\ detailAnalysis = "none"
    /\ productDetail = [kind |-> "initial"]
    /\ chart = [kind |-> "initial"]
    /\ detailRequest = [kind |-> "none"]

SpecSummary == InitSummary /\ [][TableUpdate]_vars

-----------------------------------------------------------------------------
(* Properties.  The sums and orders they name are computed from the records *)
(* of productData directly.                                                 *)

\* the positions in productData of the records of the selected branch
BranchPositions ==
    {i \in 1..Len(productData) : productData[i].Branch = branchSelect}

\* the product names occurring in the selected branch
BranchMenus == {productData[i].Menu : i \in BranchPositions}

\* property `field` of record i, 0 when the record lacks it
FieldAt(i, field) ==
    IF field \in DOMAIN productData[i] THEN productData[i][field] ELSE 0

RECURSIVE SumAt(_, _)
\* sum of `field` over the records at the positions in S
SumAt(S, field) ==
    IF S = {} THEN 0
    ELSE LET i == CHOOSE j \in S : TRUE
         IN  FieldAt(i, field) + SumAt(S \ {i}, field)

\* the positions of the records of the selected branch with product name m
MenuPositions(m) == {i \in BranchPositions : productData[i].Menu = m}

\* position in productData of the first record of the selected branch with
\* product name m
FirstSeen(m) ==
    CHOOSE i \in MenuPositions(m) : \A j \in MenuPositions(m) : i <= j

\* the aggregates updateTopPerformersTable builds for the current selection
CurrentProducts == Products(BranchData(productData, branchSelect), branchSelect)

\* the table area shows a ranked table
TableShown == tableContainer.kind = "table"

RecognisedSortKeys == {"revenue", "quantity", "margin"}

\* C1: the aggregates partition the selected branch's records by product name:
\* exactly one aggregate per product name of the branch, each with the sums of
\* Qty, Total and Margin over exactly the branch's records of that name, so that
\* the aggregates' Total adds up to the Total of the branch's records.
C1_AggregatesPartitionBranch ==
    TableShown =>
        /\ \A m \in BranchMenus :
              Cardinality({i \in 1..Len(CurrentProducts) :
                              CurrentProducts[i].Menu = m}) = 1
        /\ \A i \in 1..Len(CurrentProducts) :
              LET p == CurrentProducts[i]
              IN  /\ p.Menu \in BranchMenus
                  /\ p.Total  = SumAt(MenuPositions(p.Menu), "Total")
                  /\ p.Qty    = SumAt(MenuPositions(p.Menu), "Qty")
                  /\ p.Margin = SumAt(MenuPositions(p.Menu), "Margin")
        /\ SumTotal(CurrentProducts) = SumAt(BranchPositions, "Total")

\* C2: the branch filter returns exactly the records whose Branch equals the
\* selected branch, in their original order; the product-detail filter returns
\* exactly those of them that have the requested product name.
C2_BranchFilterExact ==
    LET out == BranchData(productData, branchSelect)
        \* position in productData of the k-th record of the selected branch
        kth(k) == CHOOSE i \in BranchPositions :
                      Cardinality({j \in BranchPositions : j <= i}) = k
    IN  tableContainer.kind # "initial" =>
            /\ Len(out) = Cardinality(BranchPositions)
            /\ \A k \in 1..Len(out) : out[k] = productData[kth(k)]
            /\ \A k \in 1..Len(out) : out[k].Branch = branchSelect
            /\ \A m \in BranchMenus :
                  LET det == ProductRecords(productData, m, branchSelect)
                      kthOf(k) == CHOOSE i \in MenuPositions(m) :
                                     Cardinality({j \in MenuPositions(m) : j <= i}) = k
                  IN  /\ Len(det) = Cardinality(MenuPositions(m))
                      /\ \A k \in 1..Len(det) : det[k] = productData[kthOf(k)]

\* C2 witness: the filter ran on a store that holds a record of the selected
\* branch "A", one of a branch differing only in case and one of another branch.
C2_Witness ==
    /\ tableContainer.kind = "table"
    /\ branchSelect = "A"
    /\ \E i, j, k \in 1..Len(productData) :
          /\ i < j /\ j < k
          /\ productData[i].Branch = "a"
          /\ productData[j].Branch = "A"
          /\ productData[k].Branch = "B"

\* the sort-key values of two table rows are equal
SameSortKey(r1, r2) ==
    CASE sortBy = "revenue"  -> r1.Total = r2.Total
      [] sortBy = "quantity" -> r1.Qty = r2.Qty
      [] sortBy = "margin"   -> r1.Margin_Percentage.num * r2.Margin_Percentage.den
                                = r2.Margin_Percentage.num * r1.Margin_Percentage.den
      [] OTHER               -> FALSE

\* C3: two aggregates with equal sort-key values appear in the ranked table in
\* the order in which their product names were first seen in the branch's
\* records (the aggregator's insertion order).
C3_TiesKeepInsertionOrder ==
    TableShown =>
        \A i, j \in 1..Len(tableContainer.rows) :
            (i < j /\ SameSortKey(tableContainer.rows[i], tableContainer.rows[j]))
            => FirstSeen(tableContainer.rows[i].Menu)
               < FirstSeen(tableContainer.rows[j].Menu)

\* the numeric limits among the values of #topCount
LimitOf(count) == CASE count = "2" -> 2 [] count = "10" -> 10

\* the sort-key value of aggregate p is strictly larger than that of q
LargerSortKey(p, q) ==
    CASE sortBy = "quantity" -> p.Qty > q.Qty
      [] sortBy = "margin"   -> p.Margin_Percentage.num * q.Margin_Percentage.den
                                > q.Margin_Percentage.num * p.Margin_Percentage.den
      [] OTHER               -> p.Total > q.Total

\* C4: with a numeric limit k and n aggregates the table has min(k, n) rows,
\* with 'all' it has n rows; the rows are the first rows of the full ranking,
\* no aggregate left out has a strictly larger sort-key value than a row shown,
\* and the i-th row shows rank i.
C4_Truncation ==
    TableShown =>
        LET rows == tableContainer.rows
            n    == Len(CurrentProducts)
            full == TableRows(SortProducts(CurrentProducts, SortField(sortBy)))
            shownMenus == {rows[i].Menu : i \in 1..Len(rows)}
        IN  /\ tableContainer.total = n
            /\ tableContainer.shown = Len(rows)
            /\ Len(rows) = IF topCount = "all" THEN n
                           ELSE IF LimitOf(topCount) < n THEN LimitOf(topCount)
                           ELSE n
            /\ \A i \in 1..Len(rows) : rows[i].rank = i /\ rows[i] = full[i]
            /\ \A i \in 1..n : \A j \in 1..Len(rows) :
                  CurrentProducts[i].Menu \notin shownMenus
                  => ~LargerSortKey(CurrentProducts[i], rows[j])

\* C4 witness: a limit of 2 cut a ranking of three aggregates.
C4_Witness ==
    /\ TableShown
    /\ topCount = "2"
    /\ tableContainer.total = 3
    /\ Len(tableContainer.rows) = 2

\* C5: the rows are in non-increasing order of summed Total for 'revenue', of
\* summed Qty for 'quantity' and of the margin percentage for 'margin'.
C5_DescendingByMappedField ==
    (TableShown /\ sortBy \in RecognisedSortKeys) =>
        \A i \in 1..(Len(tableContainer.rows) - 1) :
            LET r == tableContainer.rows[i]
                q == tableContainer.rows[i + 1]
                pctOf(x) == LET t == SumAt(MenuPositions(x.Menu), "Total")
                                g == SumAt(MenuPositions(x.Menu), "Margin")
                            IN  IF t > 0 THEN <<g * 100, t>> ELSE <<0, 1>>
            IN  CASE sortBy = "revenue"  -> r.Total >= q.Total
                  [] sortBy = "quantity" -> r.Qty >= q.Qty
                  [] sortBy = "margin"   ->
                        pctOf(r)[1] * pctOf(q)[2] >= pctOf(q)[1] * pctOf(r)[2]

\* C5 witness: sorted by 'margin', a product with the larger margin percentage
\* precedes one with the larger summed margin and the larger summed revenue.
C5_Witness ==
    /\ TableShown
    /\ sortBy = "margin"
    /\ Len(tableContainer.rows) >= 2
    /\ LET r == tableContainer.rows[1]
           q == tableContainer.rows[2]
       IN  /\ FracLess(q.Margin_Percentage, r.Margin_Percentage)
           /\ r.Total < q.Total
           /\ SumAt(MenuPositions(r.Menu), "Margin")
              < SumAt(MenuPositions(q.Menu), "Margin")

\* C6: a sort key outside {revenue, quantity, margin} is rejected: no ranked
\* table and no summary is produced for it.
C6_InvalidSortKeyRejected ==
    (sortBy \notin RecognisedSortKeys /\ tableContainer.kind # "initial")
    => (~TableShown /\ summaryContent.kind # "summary")

\* C7: an aggregate's margin percentage is exactly 0 when its revenue sum is 0,
\* its average price is exactly 0 when its quantity sum is 0, and both are
\* always finite numbers.
C7_ZeroDenominatorGivesZero ==
    TableShown =>
        /\ \A i \in 1..Len(CurrentProducts) :
              LET p == CurrentProducts[i]
              IN  /\ SumAt(MenuPositions(p.Menu), "Total") = 0
                     => p.Margin_Percentage = [num |-> 0, den |-> 1]
                  /\ SumAt(MenuPositions(p.Menu), "Qty") = 0
                     => p.Avg_Price = [num |-> 0, den |-> 1]
                  /\ p.Margin_Percentage.den > 0
                  /\ p.Avg_Price.den > 0
        /\ \A i \in 1..Len(tableContainer.rows) :
              LET r == tableContainer.rows[i]
              IN  /\ r.Total = 0 => r.Margin_Percentage = [num |-> 0, den |-> 1]
                  /\ r.Qty = 0 => r.Avg_Price = [num |-> 0, den |-> 1]

\* C7 witness: the table shows a product with revenue 0 and a margin other than
\* 0, and a product with quantity 0 and a revenue other than 0.
C7_Witness ==
    /\ TableShown
    /\ \E i \in 1..Len(tableContainer.rows) :
          /\ tableContainer.rows[i].Total = 0
          /\ SumAt(MenuPositions(tableContainer.rows[i].Menu), "Margin") # 0
    /\ \E i \in 1..Len(tableContainer.rows) :
          /\ tableContainer.rows[i].Qty = 0
          /\ tableContainer.rows[i].Total # 0

\* the positions of the records of branch b with product name m
RecordPositions(b, m) ==
    {i \in 1..Len(productData) :
        productData[i].Branch = b /\ productData[i].Menu = m}

\* pct = margin / revenue * 100
IsPercentOf(pct, margin, revenue) ==
    pct.den > 0 /\ pct.num * revenue = margin * 100 * pct.den

\* C8 as claimed: whenever the revenue sum is not 0, negative sums included,
\* the margin percentage of an aggregate, and the average margin of the
\* product detail, is margin sum / revenue sum * 100.
C8_PercentageForNonZeroRevenue ==
    /\ TableShown =>
          \A i \in 1..Len(CurrentProducts) :
              LET p == CurrentProducts[i]
                  t == SumAt(MenuPositions(p.Menu), "Total")
                  g == SumAt(MenuPositions(p.Menu), "Margin")
              IN  t # 0 => IsPercentOf(p.Margin_Percentage, g, t)
    /\ productDetail.kind = "detail" =>
          LET at == RecordPositions(productDetail.branch, productDetail.product)
              t  == SumAt(at, "Total")
              g  == SumAt(at, "Margin")
          IN  t # 0 => IsPercentOf(productDetail.avgMargin, g, t)

\* C8 amended: whenever the revenue sum is greater than 0 the margin
\* percentage of an aggregate, and the average margin of the product detail,
\* is margin sum / revenue sum * 100; for a revenue sum of 0 or less it is 0.
C8_PercentageForPositiveRevenue ==
    /\ TableShown =>
          \A i \in 1..Len(CurrentProducts) :
              LET p == CurrentProducts[i]
                  t == SumAt(MenuPositions(p.Menu), "Total")
                  g == SumAt(MenuPositions(p.Menu), "Margin")
              IN  /\ t > 0 => IsPercentOf(p.Margin_Percentage, g, t)
                  /\ t <= 0 => p.Margin_Percentage = [num |-> 0, den |-> 1]
    /\ productDetail.kind = "detail" =>
          LET at == RecordPositions(productDetail.branch, productDetail.product)
              t  == SumAt(at, "Total")
              g  == SumAt(at, "Margin")
          IN  /\ productDetail.totalRevenue = t
              /\ t > 0 => IsPercentOf(productDetail.avgMargin, g, t)
              /\ t <= 0 => productDetail.avgMargin = [num |-> 0, den |-> 1]

\* C8 witness: the table holds a product with a positive revenue sum and a
\* margin, and the detail view shows a product whose revenue sum is negative.
C8_Witness ==
    /\ TableShown
    /\ \E i \in 1..Len(CurrentProducts) :
          /\ CurrentProducts[i].Total > 0
          /\ CurrentProducts[i].Margin > 0
    /\ productDetail.kind = "detail"
    /\ productDetail.totalRevenue < 0
    /\ SumAt(RecordPositions(productDetail.branch, productDetail.product), "Margin") # 0

\* the row formatted at a position
RowShown == tableContainer.kind = "row"

\* the margin percentage shown in the row is greater than k
RowMarginAbove(k) ==
    tableContainer.row.Margin_Percentage.num
    > k * tableContainer.row.Margin_Percentage.den

\* C9: the status of the row at rank p (1-based) with margin percentage m is
\* 'Star Product' if p <= 3 and m > 20, else 'Good Performer' if p <= 10 and
\* m > 15, else 'Average' if m > 10, else 'Needs Review'.
C9_CompositeStatus ==
    RowShown =>
        LET p == tableContainer.index + 1
        IN  /\ tableContainer.row.rank = p
            /\ tableContainer.row.statusText =
                  IF p <= 3 /\ RowMarginAbove(20) THEN "Star Product"
                  ELSE IF p <= 10 /\ RowMarginAbove(15) THEN "Good Performer"
                  ELSE IF RowMarginAbove(10) THEN "Average"
                  ELSE "Needs Review"

\* C9 witness: rank 11 with a margin percentage above 20 is 'Average'.
C9_Witness ==
    /\ RowShown
    /\ tableContainer.row.rank = 11
    /\ RowMarginAbove(20)
    /\ tableContainer.row.statusText = "Average"

\* C10: the margin tier of a row is 'excellent' for m > 30, 'good' for
\* 20 < m <= 30, 'fair' for 10 < m <= 20 and 'poor' for m <= 10, at every rank.
C10_MarginTier ==
    RowShown =>
        tableContainer.row.marginBadge =
            IF RowMarginAbove(30) THEN "status-excellent"
            ELSE IF RowMarginAbove(20) THEN "status-good"
            ELSE IF RowMarginAbove(10) THEN "status-fair"
            ELSE "status-poor"

\* C10 witness: a margin percentage of exactly 30 is in the tier 'good'.
C10_Witness ==
    /\ RowShown
    /\ tableContainer.row.Margin_Percentage = [num |-> 30, den |-> 1]
    /\ productData[1].Total = 200
    /\ tableContainer.row.marginBadge = "status-good"

\* C11: the rank tier of a row depends on its 1-based position alone:
\* 'excellent' for positions 1 to 3, 'good' for 4 to 10, 'fair' from 11 on,
\* whatever the margin; no row has the rank tier 'poor'.
C11_RankTier ==
    RowShown =>
        LET p == tableContainer.index + 1
        IN  /\ tableContainer.row.rank = p
            /\ tableContainer.row.rankBadge =
                  IF p <= 3 THEN "status-excellent"
                  ELSE IF p <= 10 THEN "status-good"
                  ELSE "status-fair"
            /\ tableContainer.row.rankBadge # "status-poor"

\* C11 witness: the row at position 11 is 'fair' although its margin
\* percentage is above 30.
C11_Witness ==
    /\ RowShown
    /\ tableContainer.row.rank = 11
    /\ RowMarginAbove(30)
    /\ tableContainer.row.marginBadge = "status-excellent"
    /\ tableContainer.row.rankBadge = "status-fair"

\* the chart area was written by a product-detail request
ChartWritten == chart.kind # "initial"

\* the positions of the records the product detail on display was computed from
DetailPositions ==
    RecordPositions(productDetail.branch, productDetail.product)

\* the breakdown of the records at the positions in S: net revenue, summed
\* margin and summed COGS, those greater than 0 only
BreakdownAt(S) ==
    LET net == SumAt(S, "Total") - SumAt(S, "COGS_Total")
        mg  == SumAt(S, "Margin")
        cg  == SumAt(S, "COGS_Total")
    IN  (IF net > 0 THEN <<[label |-> "Net Revenue", value |-> net]>> ELSE <<>>)
        \o (IF mg > 0 THEN <<[label |-> "Margin (Profit)", value |-> mg]>> ELSE <<>>)
        \o (IF cg > 0 THEN <<[label |-> "COGS (Cost)", value |-> cg]>> ELSE <<>>)

\* C12: for a product and branch with at least one matching record the chart
\* gets exactly those of net revenue (revenue - COGS), summed margin and summed
\* COGS that are greater than 0, in this order, labels and values aligned; no
\* component of 0 or less is passed; with at least one component greater than 0
\* the chart area shows neither 'no data' nor 'invalid data'.
C12_PositiveComponentsInOrder ==
    ChartWritten =>
        /\ productDetail.kind = "detail"
        /\ DetailPositions # {}
        /\ LET expected == BreakdownAt(DetailPositions)
           IN  /\ chart.kind = "pie" =>
                     /\ Len(chart.labels) = Len(expected)
                     /\ Len(chart.values) = Len(expected)
                     /\ \A i \in 1..Len(expected) :
                           /\ chart.labels[i] = expected[i].label
                           /\ chart.values[i] = expected[i].value
                           /\ chart.values[i] > 0
               /\ expected # <<>> => chart.kind \notin {"noData", "invalid"}

\* C12 witness: revenue 1000, COGS 1200 and margin -200 gave the single
\* component COGS = 1200.
C12_Witness ==
    /\ chart.kind = "pie"
    /\ productDetail.kind = "detail"
    /\ SumAt(DetailPositions, "Total") = 1000
    /\ SumAt(DetailPositions, "Margin") = 0 - 200
    /\ chart.labels = <<"COGS (Cost)">>
    /\ chart.values = <<1200>>

\* C13: when records match but none of the three components is greater than 0
\* the chart area shows 'Invalid Data', whether or not the chart library would
\* raise an exception (it is not called); the message is shown only when
\* records match, and is not the 'no data' message.
C13_InvalidData ==
    ChartWritten =>
        /\ productDetail.kind = "detail"
        /\ (DetailPositions # {} /\ BreakdownAt(DetailPositions) = <<>>)
           => chart.kind = "invalid"
        /\ chart.kind = "invalid"
           => (DetailPositions # {} /\ BreakdownAt(DetailPositions) = <<>>)
        /\ DetailPositions # {} => chart.kind # "noData"

\* C13 witness: the records of the product sum to a revenue, margin and COGS
\* of 0 and the chart area shows 'Invalid Data'.
C13_Witness ==
    /\ chart.kind = "invalid"
    /\ productDetail.kind = "detail"
    /\ DetailPositions # {}
    /\ SumAt(DetailPositions, "Total") = 0
    /\ SumAt(DetailPositions, "COGS_Total") = 0
    /\ SumAt(DetailPositions, "Margin") = 0

\* a product-detail request was made in this step, by the listener of
\* #analysisProduct or by a call of showProductDetails, for a product and
\* branch that no record matches
NoMatchRequest ==
    \/ /\ analysisProduct'.value # analysisProduct.value
       /\ analysisProduct'.value # ""
       /\ branchSelect # ""
       /\ RecordPositions(branchSelect, analysisProduct'.value) = {}
    \/ /\ detailRequest' # detailRequest
       /\ RecordPositions(detailRequest'.branch, detailRequest'.product) = {}

\* C14: a product-detail request for a product and branch that no record
\* matches leaves the detail view as it was: metric cards, info text, title and
\* chart are not written or cleared, and the visibility of the detail view does
\* not change.
C14_NoMatchLeavesDetailView ==
    [][NoMatchRequest => UNCHANGED <<detailAnalysis, productDetail, chart>>]_vars

\* C14 witness: showProductDetails was called for a product that has no record
\* in the branch passed, while the detail view was visible; the view is
\* visible and still holds the detail and the chart of a product of the store.
C14_Witness ==
    /\ detailRequest.kind = "call"
    /\ detailRequest.branch # ""
    /\ Len(productData) # 0
    /\ RecordPositions(detailRequest.branch, detailRequest.product) = {}
    /\ detailAnalysis = "block"
    /\ productDetail.kind = "detail"
    /\ DetailPositions # {}
    /\ chart.kind = "pie"

\* C15: whenever a branch is selected that no record matches, the empty Record
\* Store included, the table area holds the 'no data for this branch' message
\* (not the 'select a branch' guidance) and no table.
C15_NoDataMessage ==
    (branchSelect # "" /\ BranchPositions = {})
    => tableContainer = [kind |-> "noData", branch |-> branchSelect]

\* C16: a branch change to the empty branch runs no aggregation or ranking (the
\* summary is left alone) and puts the 'select a branch first' guidance into
\* the table area, for every Record Store.
C16_GuidanceWithoutBranch ==
    [][(branchSelect' # branchSelect /\ branchSelect' = "")
       => /\ tableContainer' = [kind |-> "selectBranch"]
          /\ summaryContent' = summaryContent]_vars

\* the state of the selection state machine
SelectionState ==
    IF branchSelect = "" THEN "NoBranch"
    ELSE IF analysisProduct.value = "" THEN "BranchSelected"
    ELSE "ProductSelected"

\* C17: after every branch-change event the selected product is empty, and the
\* selection state is BranchSelected when the new branch is not the empty one;
\* a selected product is always one of the selected branch.
C17_BranchChangeResetsProduct ==
    [][/\ branchSelect' # branchSelect
          => /\ analysisProduct'.value = ""
             /\ branchSelect' # "" => SelectionState' = "BranchSelected"
       /\ analysisProduct'.value # ""
          => \E i \in 1..Len(productData) :
                /\ productData[i].Branch = branchSelect'
                /\ productData[i].Menu = analysisProduct'.value]_vars

\* C17 witness: a branch was selected while the detail of a product of the
\* previous branch was on display; the new branch has a product of the same
\* name, and no product is selected.
C17_Witness ==
    /\ SelectionState = "BranchSelected"
    /\ detailAnalysis = "block"
    /\ productDetail.kind = "detail"
    /\ productDetail.branch # branchSelect
    /\ productDetail.product \in BranchMenus

\* C18: once the empty branch has been selected the table area shows the
\* guidance, the selection statistics show 'N/A' and the product dropdown holds
\* its placeholder alone and is disabled, whatever the state before.
C18_EmptyBranchReturnsToNoBranch ==
    (branchSelect = "" /\ branchInfoText.kind # "initial")
    => /\ tableContainer = [kind |-> "selectBranch"]
       /\ selectionInfo = [kind |-> "unique"]
       /\ analysisProduct = [options |-> <<"">>, value |-> "", disabled |-> TRUE]

\* C19: a change of the sort key or of the count changes neither the selected
\* branch nor the selected product; without a branch it changes no output;
\* with a branch it leaves the product dropdown, the selection statistics and
\* the product-detail view as they were.
C19_SortAndCountKeepSelection ==
    [][(sortBy' # sortBy \/ topCount' # topCount)
       => /\ UNCHANGED <<productData, branchSelect, analysisProduct, selectionInfo,
                         branchInfoText, detailAnalysis, productDetail, chart>>
          /\ branchSelect = "" => UNCHANGED <<tableContainer, summaryContent>>
          /\ SelectionState' = SelectionState]_vars

\* C19 witness: sort key and count were changed and the table re-ranked while a
\* product is selected and its detail is on display.
C19_Witness ==
    /\ sortBy = "margin"
    /\ topCount = "2"
    /\ TableShown
    /\ summaryContent.kind = "summary"
    /\ SelectionState = "ProductSelected"
    /\ detailAnalysis = "block"
    /\ productDetail.kind = "detail"
    /\ productDetail.product = analysisProduct.value

\* the dropdown was rebuilt for the selected branch
DropdownBuilt == branchInfoText.kind # "initial"

\* C20: the dropdown built for a branch holds, after the placeholder, each
\* product name of the branch's records exactly once, in ascending order, and
\* no name that only records of other branches have.
C20_DropdownOfBranch ==
    (DropdownBuilt /\ branchSelect # "") =>
        LET opts == analysisProduct.options
        IN  /\ ~analysisProduct.disabled
            /\ opts[1] = ""
            /\ Len(opts) = 1 + Cardinality(BranchMenus)
            /\ {opts[i] : i \in 2..Len(opts)} = BranchMenus
            /\ \A i, j \in 2..Len(opts) :
                  i < j => CodeUnitsLess(CodeUnits(opts[i]), CodeUnits(opts[j]))

\* C20 witness: branch A has '2' before '10' in the store and another branch
\* has a name of its own; the dropdown lists '10', then '2'.
C20_Witness ==
    /\ DropdownBuilt
    /\ branchSelect = "A"
    /\ analysisProduct.options = <<"", "10", "2">>
    /\ \E i, j, k \in 1..Len(productData) :
          /\ i < j
          /\ productData[i].Menu = "2"
          /\ productData[j].Menu = "10"
          /\ productData[k].Branch # "A"
          /\ productData[k].Menu \notin BranchMenus

\* the percentage 0 of the textual fallback
ZeroPercent == [kind |-> "finite", value |-> [num |-> 0, den |-> 1]]

\* C21: every percentage computed for display follows the zero-fallback rule:
\* with a revenue sum of 0 the average margin of the product detail is 0 and
\* the three percentages of the textual chart fallback, whose denominator is
\* the revenue sum of the records charted, are 0.
C21_ZeroFallbackEverywhere ==
    /\ productDetail.kind = "detail" =>
          (SumAt(DetailPositions, "Total") = 0
           => productDetail.avgMargin = [num |-> 0, den |-> 1])
    /\ chart.kind = "fallback" =>
          (chart.totalRevenue = 0
           => /\ chart.netPercent = ZeroPercent
              /\ chart.marginPercent = ZeroPercent
              /\ chart.cogsPercent = ZeroPercent)

\* record i of productData lacks one of the numeric fields
LacksField(i) ==
    ~({"Qty", "Total", "Margin", "COGS_Total"} \subseteq DOMAIN productData[i])

\* C22: a record that lacks Qty, Total, Margin or 'COGS Total' adds 0 to the
\* sum of that field in the aggregate of its product and in the product detail;
\* it belongs to exactly one aggregate and is counted among the records of the
\* branch and of the product.
C22_MissingFieldsCountAsZero ==
    /\ TableShown =>
          \A i \in BranchPositions :
              LacksField(i) =>
                  LET m  == productData[i].Menu
                      at == {k \in 1..Len(CurrentProducts) : CurrentProducts[k].Menu = m}
                  IN  /\ Cardinality(at) = 1
                      /\ \A k \in at :
                            /\ CurrentProducts[k].Total  = SumAt(MenuPositions(m), "Total")
                            /\ CurrentProducts[k].Qty    = SumAt(MenuPositions(m), "Qty")
                            /\ CurrentProducts[k].Margin = SumAt(MenuPositions(m), "Margin")
    /\ (selectionInfo.kind = "branch" /\ selectionInfo.branch = branchSelect)
          => selectionInfo.records = Cardinality(BranchPositions)
    /\ productDetail.kind = "detail" =>
          /\ productDetail.records = Cardinality(DetailPositions)
          /\ productDetail.totalRevenue = SumAt(DetailPositions, "Total")
          /\ productDetail.totalQty = SumAt(DetailPositions, "Qty")
          /\ chart.kind \in {"pie", "fallback"} =>
                /\ chart.records = Cardinality(DetailPositions)
                /\ chart.totalRevenue = SumAt(DetailPositions, "Total")
          /\ chart.kind = "fallback" =>
                /\ chart.margin = SumAt(DetailPositions, "Margin")
                /\ chart.cogs = SumAt(DetailPositions, "COGS_Total")
                /\ chart.netRevenue = SumAt(DetailPositions, "Total")
                                      - SumAt(DetailPositions, "COGS_Total")

\* C22 witness: the selected branch has a record with all fields and one with
\* Total alone; the table shows the aggregate of the latter with quantity 0,
\* and its detail counts one record with revenue 60, quantity 0, margin 0 and
\* COGS 0.
C22_Witness ==
    /\ TableShown
    /\ Cardinality(BranchPositions) = 2
    /\ \E i, j \in BranchPositions : LacksField(i) /\ ~LacksField(j)
    /\ \E k \in 1..Len(tableContainer.rows) :
          /\ tableContainer.rows[k].Menu = "Es Teh"
          /\ tableContainer.rows[k].Total = 60
          /\ tableContainer.rows[k].Qty = 0
    /\ productDetail.kind = "detail"
    /\ productDetail.branch = branchSelect
    /\ productDetail.product = "Es Teh"
    /\ productDetail.records = 1
    /\ productDetail.totalRevenue = 60
    /\ productDetail.totalQty = 0
    /\ chart.kind = "fallback"
    /\ chart.margin = 0
    /\ chart.cogs = 0

\* C23: the aggregates reach the ranker in the order in which their product
\* names are first seen in the records of the branch, names that look like
\* non-negative integers included.
C23_FirstSeenOrder ==
    TableShown =>
        \A i, j \in 1..Len(CurrentProducts) :
            i < j => FirstSeen(CurrentProducts[i].Menu)
                     < FirstSeen(CurrentProducts[j].Menu)

\* every area on display is what its function gives for the store and the
\* selection as they are now: the event that wrote it would, run again, write
\* the same output
DisplayReproducible ==
    /\ branchInfoText.kind # "initial" =>
          /\ tableContainer = TopPerformersTable(productData, branchSelect, topCount,
                                                 sortBy, tableContainer)
          /\ summaryContent = TopPerformersSummary(productData, branchSelect, topCount,
                                                   sortBy, summaryContent)
          /\ selectionInfo = SelectionInfo(productData, branchSelect, selectionInfo)
          /\ analysisProduct.options
             = ProductDropdown(productData, branchSelect).options
          /\ branchInfoText = BranchInfo(productData, branchSelect)
    /\ analysisProduct.value # "" =>
          /\ detailAnalysis = "block"
          /\ DetailsShown(productData, analysisProduct.value, branchSelect)
          /\ productDetail = ProductDetail(productData, analysisProduct.value,
                                           branchSelect)
          /\ \E plotThrows \in BOOLEAN :
                chart = ProductChart(ProductRecords(productData, analysisProduct.value,
                                                    branchSelect),
                                     analysisProduct.value, branchSelect, plotThrows)

\* C24: no event changes the Record Store (the record sequence and every field
\* of every record stay as loaded), and repeating an event on unchanged inputs
\* gives the same display output.
C24_StoreUntouchedAndIdempotent ==
    [][productData' = productData]_vars /\ []DisplayReproducible

\* C24 witness: with a table on display for a store of two records, the sort
\* key and the count were changed and a product was selected; each of these
\* events ran on the store as loaded.
C24_Witness ==
    /\ Len(productData) = 2
    /\ TableShown
    /\ Len(tableContainer.rows) = 2
    /\ sortBy = "quantity"
    /\ topCount = "all"
    /\ SelectionState = "ProductSelected"
    /\ productDetail.kind = "detail"
    /\ productDetail.product = analysisProduct.value
    /\ productDetail.branch = branchSelect

\* C25: with a non-empty breakdown the chart area holds the pie or, when the
\* chart library raised an exception, the textual fallback with net revenue,
\* margin, COGS, total revenue and record count of the product; it is never
\* blank, and the listener goes on to show the detail view.
C25_FallbackOnChartException ==
    (ChartWritten /\ BreakdownAt(DetailPositions) # <<>>) =>
        /\ chart.kind \in {"pie", "fallback"}
        /\ chart.kind = "fallback" =>
              /\ chart.product = productDetail.product
              /\ chart.branch = productDetail.branch
              /\ chart.netRevenue = SumAt(DetailPositions, "Total")
                                    - SumAt(DetailPositions, "COGS_Total")
              /\ chart.margin = SumAt(DetailPositions, "Margin")
              /\ chart.cogs = SumAt(DetailPositions, "COGS_Total")
              /\ chart.totalRevenue = SumAt(DetailPositions, "Total")
              /\ chart.records = Cardinality(DetailPositions)
              /\ analysisProduct.value # "" => detailAnalysis = "block"

\* C25 witness: the chart library raised an exception for a product with
\* revenue 100, COGS 60 and margin 20; the fallback is on display in the
\* visible detail view.
C25_Witness ==
    /\ chart.kind = "fallback"
    /\ chart.totalRevenue = 100
    /\ chart.netRevenue = 40
    /\ chart.margin = 20
    /\ chart.cogs = 60
    /\ chart.records = 1
    /\ chart.netPercent = [kind |-> "finite", value |-> [num |-> 40, den |-> 1]]
    /\ detailAnalysis = "block"

\* C26: whenever the detail view is visible, its metrics and its chart were
\* computed from the selected branch and the selected product; without a
\* branch or without a product no detail is on display.
C26_DetailMatchesSelection ==
    detailAnalysis = "block" =>
        /\ SelectionState = "ProductSelected"
        /\ productDetail.kind = "detail"
        /\ productDetail.branch = branchSelect
        /\ productDetail.product = analysisProduct.value

\* C27: the table area and the summary area describe the same selection: a
\* ranked table comes with the summary of its branch and rows, and without a
\* ranked table (no branch, or a branch without records) the summary shows no
\* top-3 list and totals.
C27_TableAndSummaryAgree ==
    /\ TableShown =>
          /\ summaryContent.kind = "summary"
          /\ summaryContent.branch = branchSelect
          /\ summaryContent.shown = Len(tableContainer.rows)
          /\ \A i \in 1..Len(summaryContent.top3) :
                summaryContent.top3[i] = tableContainer.rows[i].Menu
    /\ ~TableShown => summaryContent.kind # "summary"

\* C28: on the page that starts with an empty product dropdown, the products
\* that can be selected are exactly the product names of the selected branch
\* (none without a branch); a selected product has a record in the selected
\* branch and its detail was written, and the chart area never shows 'No Data
\* Available'.
C28_SelectableProductsOfBranch ==
    LET opts == analysisProduct.options
    IN  /\ opts[1] = ""
        /\ {opts[i] : i \in 2..Len(opts)} = BranchMenus
        /\ Len(opts) = 1 + Cardinality(BranchMenus)
        /\ branchSelect = "" => (Len(opts) = 1 /\ analysisProduct.disabled)
        /\ analysisProduct.value # "" =>
              /\ RecordPositions(branchSelect, analysisProduct.value) # {}
              /\ productDetail.kind = "detail"
              /\ productDetail.branch = branchSelect
              /\ productDetail.product = analysisProduct.value
        /\ chart.kind # "noData"

\* C28 witness: a product of branch A is selected while the store also holds
\* a product that only branch B has, which the dropdown does not offer.
C28_Witness ==
    /\ branchSelect = "A"
    /\ analysisProduct.value # ""
    /\ productDetail.kind = "detail"
    /\ productDetail.product = analysisProduct.value
    /\ \E i \in 1..Len(productData) :
          /\ productData[i].Branch = "B"
          /\ productData[i].Menu \notin BranchMenus
          /\ \A k \in 1..Len(analysisProduct.options) :
                analysisProduct.options[k] # productData[i].Menu

\* C29: for every product of the selected branch the product detail and the
\* aggregate of the table agree on total revenue, total quantity, total margin
\* and margin percentage; the number of products of the selection statistics,
\* the number of products the dropdown offers and the total count of the table
\* are equal.
C29_DetailAgreesWithAggregate ==
    TableShown =>
        /\ \A m \in BranchMenus :
              \E k \in 1..Len(CurrentProducts) :
                  LET p == CurrentProducts[k]
                      d == ProductDetail(productData, m, branchSelect)
                      r == ProductRecords(productData, m, branchSelect)
                  IN  /\ p.Menu = m
                      /\ p.Total = d.totalRevenue
                      /\ p.Qty = d.totalQty
                      /\ p.Margin = SumField(r, "Margin")
                      /\ p.Margin_Percentage = d.avgMargin
        /\ selectionInfo.kind = "branch"
        /\ selectionInfo.products = Len(analysisProduct.options) - 1
        /\ selectionInfo.products = tableContainer.total

RECURSIVE RowsTotal(_, _)
\* sum of Total over the first n rows
RowsTotal(rows, n) ==
    IF n = 0 THEN 0 ELSE RowsTotal(rows, n - 1) + rows[n].Total

RECURSIVE RowsMargin(_, _)
\* sum of the margin percentages of the first n rows
RowsMargin(rows, n) ==
    IF n = 0 THEN [num |-> 0, den |-> 1]
    ELSE FracAdd(RowsMargin(rows, n - 1), rows[n].Margin_Percentage)

\* C30: the summary is computed from the rows shown: its total revenue is the
\* sum of Total over the table rows, its average margin their unweighted mean
\* margin percentage, its top-3 list the first min(3, shown) rows in table
\* order, and shown = number of rows <= total = number of aggregates.
C30_SummaryOfShownRows ==
    TableShown =>
        LET rows == tableContainer.rows
            n    == Len(rows)
            sum  == RowsMargin(rows, n)
        IN  /\ summaryContent.kind = "summary"
            /\ summaryContent.totalRevenue = RowsTotal(rows, n)
            /\ summaryContent.avgMargin.den > 0
            /\ summaryContent.avgMargin.num * sum.den * n
               = sum.num * summaryContent.avgMargin.den
            /\ Len(summaryContent.top3) = (IF n < 3 THEN n ELSE 3)
            /\ \A i \in 1..Len(summaryContent.top3) :
                  summaryContent.top3[i] = rows[i].Menu
            /\ summaryContent.shown = n
            /\ summaryContent.total = Len(CurrentProducts)
            /\ summaryContent.shown <= summaryContent.total

\* C30 witness: a limit of 2 cut a ranking of four aggregates; the summary's
\* total revenue is that of the two rows, less than the revenue of the branch.
C30_Witness ==
    /\ TableShown
    /\ topCount = "2"
    /\ summaryContent.kind = "summary"
    /\ summaryContent.shown = 2
    /\ summaryContent.total = 4
    /\ summaryContent.totalRevenue = 200
    /\ SumAt(BranchPositions, "Total") = 260
    /\ summaryContent.avgMargin # [num |-> 0, den |-> 1]

====
